---- MODULE Spec2Model ----
(***************************************************************************)
(* game-docker-wrapper (src/main.rs): a supervisor that spawns a child,    *)
(* relays its own stdin to the child's stdin line by line (input_task),    *)
(* and on SIGTERM takes the child's stdin lock for good, writes the        *)
(* configured kill sequence, waits for the child and exits.                *)
(*                                                                         *)
(* Two flows run concurrently: main (main_pc) and the spawned input_task   *)
(* (relay_pc).  The environment delivers SIGTERM, lets the child exit and  *)
(* makes writes to the child's stdin fail.  Bytes are modelled one at a    *)
(* time: write_all is a loop of writes, each of which may fail.            *)
(***************************************************************************)
EXTENDS Integers, Sequences, FiniteSets, TLC

VARIABLES
  cfg,          \* parsed command line: debug, kill_command, newline_*_kill
  stdin_data,   \* bytes of the wrapper's stdin not yet consumed by lines()
  stdin_end,    \* what follows those bytes: "eof", "err" or "block"
  main_pc,      \* position of main()
  main_off,     \* bytes of kill_command already written by write_all
  relay_pc,     \* position of input_task()
  line,         \* input_task's local `line` (terminator pushed)
  line_off,     \* bytes of `line` already written by write_all
  mutex,        \* owner of the child_stdin Mutex: "free", "relay", "main"
  waiters,      \* FIFO queue of tasks parked in lock().await
  child,        \* "none", "running", "exited"
  handle_refs,  \* owners of the Arc around the child's stdin handle; the
                \* handle is closed when the last one is dropped
  child_in,     \* bytes written to the child's stdin, each tagged by writer
  read_lines,   \* history: the lines next_line() has returned so far
  sig_registered, \* the SIGTERM handler is installed (signal() was called)
  sig_pending,  \* a SIGTERM notification is queued for the Signal stream
  sig_count,    \* SIGTERM deliveries so far
  sig_late,     \* history: a SIGTERM arrived between recv() and the end of
                \* child.await
  write_failed, \* history: whose write to the child failed
  child_status, \* the child's exit status (-1 while it has none)
  wait_result,  \* result of `child.await`: "none", "ok" or "err"
  stderr,       \* messages printed with eprintln!, in order
  proc,         \* the wrapper process: "running", "exited" (by exit()) or
                \* "killed" (by SIGTERM's default action)
  exit_code     \* the code passed to exit() (-1 while there is none)

vars == <<cfg, handle_refs, stdin_data, stdin_end, main_pc, main_off, relay_pc, line,
          line_off, mutex, waiters, child, child_in, read_lines,
          sig_registered, sig_pending, sig_count, sig_late, write_failed,
          child_status, wait_result, stderr, proc, exit_code>>

----------------------------------------------------------------------------
(* Bounds *)

\* longest stdin content explored, in bytes
MaxIn == 3
\* most SIGTERM deliveries explored
MaxSignals == 2

----------------------------------------------------------------------------
(* Values *)

LF == "LF"
CR == "CR"
InBytes == {"a", CR, LF}
None == <<"None">>
KillCommands == {<<"e", "x">>}
ChildCodes == {0, 2}
StdinEnds == {"eof", "err", "block"}

SeqsUpTo(S, n) == UNION {[1..k -> S] : k \in 0..n}

\* clap: -n and -N both `requires("kill-command")`
Configs ==
  {c \in [debug : BOOLEAN, kill_command : KillCommands \cup {None},
          newline_before_kill : BOOLEAN, newline_after_kill : BOOLEAN] :
     c.kill_command = None => c.newline_before_kill /\ c.newline_after_kill}

----------------------------------------------------------------------------
(* lines().next_line() of tokio's BufReader over stdin *)

FirstLF(data) ==
  IF \E i \in 1..Len(data) : data[i] = LF
  THEN CHOOSE i \in 1..Len(data) : data[i] = LF /\ \A j \in 1..(i-1) : data[j] # LF
  ELSE 0

StripCR(s) ==
  IF Len(s) > 0 /\ s[Len(s)] = CR THEN SubSeq(s, 1, Len(s) - 1) ELSE s

\* Result of next_line(): [kind, line, rest].  kind "line": Ok(Some(line));
\* "none": Ok(None); "err": Err(e); "pending": the read does not complete.
\* A "\n" ends a line and is dropped, together with a "\r" right before it;
\* unterminated bytes before end-of-stream are a last line, returned as is.
NextLine(data, end) ==
  LET i == FirstLF(data) IN
  IF i > 0
  THEN [kind |-> "line", line |-> StripCR(SubSeq(data, 1, i - 1)),
        rest |-> SubSeq(data, i + 1, Len(data))]
  ELSE IF end = "eof"
       THEN IF data = <<>>
            THEN [kind |-> "none", line |-> <<>>, rest |-> <<>>]
            ELSE [kind |-> "line", line |-> data, rest |-> <<>>]
       ELSE IF end = "err"
            THEN [kind |-> "err", line |-> <<>>, rest |-> <<>>]
            ELSE [kind |-> "pending", line |-> <<>>, rest |-> data]

----------------------------------------------------------------------------
(* Helpers *)

Tagged(b, who) == [b |-> b, by |-> who]

Bytes(s) == [i \in 1..Len(s) |-> s[i].b]

RECURSIVE KeepBy(_, _)
KeepBy(s, who) ==
  IF s = <<>> THEN <<>>
  ELSE IF s[1].by = who THEN <<s[1].b>> \o KeepBy(Tail(s), who)
       ELSE KeepBy(Tail(s), who)

\* std::process::exit(code) after eprintln!(msg...)
Exit(msgs, code) ==
  /\ stderr' = stderr \o msgs
  /\ proc' = "exited"
  /\ exit_code' = code

Init ==
  /\ cfg \in Configs
  /\ stdin_data \in SeqsUpTo(InBytes, MaxIn)
  /\ stdin_end \in StdinEnds
  /\ main_pc = "spawn"
  /\ main_off = 0
  /\ relay_pc = "unstarted"
  /\ line = <<>>
  /\ line_off = 0
  /\ mutex = "free"
  /\ waiters = <<>>
  /\ child = "none"
  /\ handle_refs = 0
  /\ child_in = <<>>
  /\ read_lines = <<>>
  /\ sig_registered = FALSE
  /\ sig_pending = FALSE
  /\ sig_count = 0
  /\ sig_late = FALSE
  /\ write_failed = "none"
  /\ child_status = -1
  /\ wait_result = "none"
  /\ stderr = <<>>
  /\ proc = "running"
  /\ exit_code = -1

----------------------------------------------------------------------------
(* The child_stdin Mutex (tokio::sync::Mutex: waiters are served in FIFO   *)
(* order, a released lock is handed to the first waiter)                   *)

\* lock(): take the free lock, or park behind the current owner
Lock(who) ==
  IF mutex = "free" /\ waiters = <<>>
  THEN /\ mutex' = who
       /\ UNCHANGED waiters
  ELSE /\ waiters' = Append(waiters, who)
       /\ UNCHANGED mutex

\* mutant of Unlock: the lock is freed without waking the first waiter
Unlock_LostWakeup ==
  /\ mutex' = "free"
  /\ UNCHANGED waiters

\* dropping the MutexGuard
Unlock ==
  IF waiters = <<>>
  THEN /\ mutex' = "free"
       /\ UNCHANGED waiters
  ELSE /\ mutex' = Head(waiters)
       /\ waiters' = Tail(waiters)

----------------------------------------------------------------------------
(* input_task *)

\* mutant of RelayReadLine: line.push('\n') is left out
RelayReadLine_NoTerminator ==
  /\ proc = "running"
  /\ relay_pc = "read"
  /\ LET r == NextLine(stdin_data, stdin_end) IN
       /\ r.kind = "line"
       /\ stdin_data' = r.rest
       /\ line' = r.line
       /\ read_lines' = Append(read_lines, r.line)
  /\ line_off' = 0
  /\ relay_pc' = "lock"
  /\ UNCHANGED <<cfg, handle_refs, stdin_end, main_pc, main_off, mutex, waiters, child,
                 child_in, sig_registered, sig_pending, sig_count, sig_late,
                 write_failed, child_status, wait_result, stderr, proc,
                 exit_code>>

\* lines 14-31: next_line() returned a line; push '\n'
RelayReadLine ==
  /\ proc = "running"
  /\ relay_pc = "read"
  /\ LET r == NextLine(stdin_data, stdin_end) IN
       /\ r.kind = "line"
       /\ stdin_data' = r.rest
       /\ line' = Append(r.line, LF)
       /\ read_lines' = Append(read_lines, r.line)
  /\ line_off' = 0
  /\ relay_pc' = "lock"
  /\ UNCHANGED <<cfg, handle_refs, stdin_end, main_pc, main_off, mutex, waiters, child,
                 child_in, sig_registered, sig_pending, sig_count, sig_late,
                 write_failed, child_status, wait_result, stderr, proc,
                 exit_code>>

\* lines 14-30: next_line() returned Err(e) or Ok(None); warn and return,
\* which drops the task's reference to the handle
RelayReadEnd ==
  /\ proc = "running"
  /\ relay_pc = "read"
  /\ LET r == NextLine(stdin_data, stdin_end) IN
       /\ r.kind \in {"err", "none"}
       /\ stdin_data' = r.rest
       /\ stderr' = Append(stderr, IF r.kind = "err" THEN "WARNING: can't read from stdin"
                                   ELSE "WARNING: can't read from stdin: closed")
  /\ relay_pc' = "returned"
  /\ handle_refs' = handle_refs - 1
  /\ UNCHANGED <<cfg, stdin_end, main_pc, main_off, line, line_off, mutex,
                 waiters, child, child_in, read_lines, sig_registered,
                 sig_pending, sig_count, sig_late, write_failed, child_status,
                 wait_result, proc, exit_code>>

\* mutant of RelayLock: try_lock(); a line that finds the lock taken is
\* dropped and the next one is read
RelayLock_TryLock ==
  /\ proc = "running"
  /\ relay_pc = "lock"
  /\ IF mutex = "free"
     THEN mutex' = "relay" /\ relay_pc' = "locked"
     ELSE mutex' = mutex /\ relay_pc' = "read"
  /\ UNCHANGED <<cfg, handle_refs, stdin_data, stdin_end, main_pc, main_off,
                 line, line_off, waiters, child, child_in, read_lines,
                 sig_registered, sig_pending, sig_count, sig_late,
                 write_failed, child_status, wait_result, stderr, proc,
                 exit_code>>

\* line 33: child_stdin.lock().await
RelayLock ==
  /\ proc = "running"
  /\ relay_pc = "lock"
  /\ Lock("relay")
  /\ relay_pc' = "locked"
  /\ UNCHANGED <<cfg, handle_refs, stdin_data, stdin_end, main_pc, main_off, line, line_off,
                 child, child_in, read_lines, sig_registered, sig_pending,
                 sig_count, sig_late, write_failed, child_status, wait_result,
                 stderr, proc, exit_code>>

\* mutant of RelayWrite: the lock is taken for each write of write_all, not
\* for the whole line
RelayWrite_LockPerWrite ==
  /\ proc = "running"
  /\ relay_pc = "locked"
  /\ mutex = "relay"
  /\ line_off < Len(line)
  /\ child_in' = Append(child_in, Tagged(line[line_off + 1], "relay"))
  /\ line_off' = line_off + 1
  /\ Unlock
  /\ relay_pc' = IF line_off + 1 < Len(line) THEN "lock" ELSE "read"
  /\ UNCHANGED <<cfg, handle_refs, stdin_data, stdin_end, main_pc, main_off, line, child,
                 read_lines, sig_registered, sig_pending, sig_count, sig_late,
                 write_failed, child_status, wait_result, stderr, proc,
                 exit_code>>

\* line 33: write_all(&line.into_bytes()) writes the next byte of the line
RelayWrite ==
  /\ proc = "running"
  /\ relay_pc = "locked"
  /\ mutex = "relay"
  /\ line_off < Len(line)
  /\ child_in' = Append(child_in, Tagged(line[line_off + 1], "relay"))
  /\ line_off' = line_off + 1
  /\ UNCHANGED <<cfg, handle_refs, stdin_data, stdin_end, main_pc, main_off, relay_pc, line,
                 mutex, waiters, child, read_lines, sig_registered,
                 sig_pending, sig_count, sig_late, write_failed, child_status,
                 wait_result, stderr, proc, exit_code>>

\* mutant of RelayWriteFail: the error is reported and the task returns,
\* dropping the guard, instead of exit(1)
RelayWriteFail_Return ==
  /\ proc = "running"
  /\ relay_pc = "locked"
  /\ mutex = "relay"
  /\ line_off < Len(line)
  /\ write_failed' = "relay"
  /\ stderr' = Append(stderr, "Unable to write to child process")
  /\ Unlock
  /\ relay_pc' = "returned"
  /\ handle_refs' = handle_refs - 1
  /\ UNCHANGED <<cfg, stdin_data, stdin_end, main_pc, main_off, line, line_off,
                 child, child_in, read_lines, sig_registered, sig_pending,
                 sig_count, sig_late, child_status, wait_result, proc,
                 exit_code>>

\* lines 33-36: a write of write_all fails; report and exit(1)
RelayWriteFail ==
  /\ proc = "running"
  /\ relay_pc = "locked"
  /\ mutex = "relay"
  /\ line_off < Len(line)
  /\ write_failed' = "relay"
  /\ Exit(<<"Unable to write to child process">>, 1)
  /\ UNCHANGED <<cfg, handle_refs, stdin_data, stdin_end, main_pc, main_off, relay_pc, line,
                 line_off, mutex, waiters, child, child_in, read_lines,
                 sig_registered, sig_pending, sig_count, sig_late,
                 child_status, wait_result>>

\* lines 33-37: write_all returned Ok; the guard is dropped, loop
RelayUnlock ==
  /\ proc = "running"
  /\ relay_pc = "locked"
  /\ mutex = "relay"
  /\ line_off = Len(line)
  /\ Unlock
  /\ relay_pc' = "read"
  /\ UNCHANGED <<cfg, handle_refs, stdin_data, stdin_end, main_pc, main_off, line, line_off,
                 child, child_in, read_lines, sig_registered, sig_pending,
                 sig_count, sig_late, write_failed, child_status, wait_result,
                 stderr, proc, exit_code>>

----------------------------------------------------------------------------
(* main *)

DebugMsg(m) == IF cfg.debug THEN <<m>> ELSE <<>>

\* lines 111-122: spawn the child with a piped stdin, wrap it in the
\* Arc<Mutex<..>> that main owns
MainSpawnOk ==
  /\ proc = "running"
  /\ main_pc = "spawn"
  /\ stderr' = stderr \o DebugMsg("Running command")
  /\ child' = "running"
  /\ main_pc' = "spawn_task"
  /\ handle_refs' = 1
  /\ UNCHANGED <<cfg, stdin_data, stdin_end, main_off, relay_pc, line, line_off,
                 mutex, waiters, child_in, read_lines, sig_registered,
                 sig_pending, sig_count, sig_late, write_failed, child_status,
                 wait_result, proc, exit_code>>

\* mutant of MainSpawnFail: the error is reported without exit(1)
MainSpawnFail_Continue ==
  /\ proc = "running"
  /\ main_pc = "spawn"
  /\ stderr' = stderr \o DebugMsg("Running command") \o <<"Error creating process">>
  /\ main_pc' = "spawn_task"
  /\ UNCHANGED <<cfg, handle_refs, stdin_data, stdin_end, main_off, relay_pc, line, line_off,
                 mutex, waiters, child, child_in, read_lines, sig_registered,
                 sig_pending, sig_count, sig_late, write_failed, child_status,
                 wait_result, proc, exit_code>>

\* lines 111-119: spawn() returned Err(e); report and exit(1)
MainSpawnFail ==
  /\ proc = "running"
  /\ main_pc = "spawn"
  /\ Exit(DebugMsg("Running command") \o <<"Error creating process">>, 1)
  /\ UNCHANGED <<cfg, handle_refs, stdin_data, stdin_end, main_pc, main_off, relay_pc, line,
                 line_off, mutex, waiters, child, child_in, read_lines,
                 sig_registered, sig_pending, sig_count, sig_late,
                 write_failed, child_status, wait_result>>

\* mutant of MainSpawnTask: the Arc is moved into the task, not cloned
MainSpawnTask_MoveArc ==
  /\ proc = "running"
  /\ main_pc = "spawn_task"
  /\ relay_pc' = "read"
  /\ main_pc' = "signal"
  /\ UNCHANGED <<cfg, handle_refs, stdin_data, stdin_end, main_off, line,
                 line_off, mutex, waiters, child, child_in, read_lines,
                 sig_registered, sig_pending, sig_count, sig_late,
                 write_failed, child_status, wait_result, stderr, proc,
                 exit_code>>

\* line 125: task::spawn(input_task(child_stdin.clone())): the task owns a
\* second reference
MainSpawnTask ==
  /\ proc = "running"
  /\ main_pc = "spawn_task"
  /\ relay_pc' = "read"
  /\ main_pc' = "signal"
  /\ handle_refs' = handle_refs + 1
  /\ UNCHANGED <<cfg, stdin_data, stdin_end, main_off, line, line_off, mutex,
                 waiters, child, child_in, read_lines, sig_registered,
                 sig_pending, sig_count, sig_late, write_failed, child_status,
                 wait_result, stderr, proc, exit_code>>

\* line 128: signal(SignalKind::terminate()) installs the SIGTERM handler
MainSignal ==
  /\ proc = "running"
  /\ main_pc = "signal"
  /\ sig_registered' = TRUE
  /\ main_pc' = "recv"
  /\ UNCHANGED <<cfg, handle_refs, stdin_data, stdin_end, main_off, relay_pc, line, line_off,
                 mutex, waiters, child, child_in, read_lines, sig_pending,
                 sig_count, sig_late, write_failed, child_status, wait_result,
                 stderr, proc, exit_code>>

\* mutant of MainRecv: main also wakes when the child has exited
MainRecv_OrChildExit ==
  /\ proc = "running"
  /\ main_pc = "recv"
  /\ sig_pending \/ child = "exited"
  /\ sig_pending' = FALSE
  /\ main_pc' = "lock"
  /\ UNCHANGED <<cfg, handle_refs, stdin_data, stdin_end, main_off, relay_pc,
                 line, line_off, mutex, waiters, child, child_in, read_lines,
                 sig_registered, sig_count, sig_late, write_failed,
                 child_status, wait_result, stderr, proc, exit_code>>

\* lines 128-134: recv().await completes on a queued notification
MainRecv ==
  /\ proc = "running"
  /\ main_pc = "recv"
  /\ sig_pending
  /\ sig_pending' = FALSE
  /\ stderr' = stderr \o DebugMsg(IF cfg.kill_command = None
                                  THEN "SIGTERM received! Performing a clean shutdown"
                                  ELSE "SIGTERM received! Sending kill command to the child")
  /\ main_pc' = "lock"
  /\ UNCHANGED <<cfg, handle_refs, stdin_data, stdin_end, main_off, relay_pc, line, line_off,
                 mutex, waiters, child, child_in, read_lines, sig_registered,
                 sig_count, sig_late, write_failed, child_status, wait_result,
                 proc, exit_code>>

\* mutant of MainLock: main takes the handle without waiting for its owner
MainLock_NoAwait ==
  /\ proc = "running"
  /\ main_pc = "lock"
  /\ mutex' = "main"
  /\ main_pc' = "newline_before"
  /\ UNCHANGED <<cfg, handle_refs, stdin_data, stdin_end, main_off, relay_pc,
                 line, line_off, waiters, child, child_in, read_lines,
                 sig_registered, sig_pending, sig_count, sig_late,
                 write_failed, child_status, wait_result, stderr, proc,
                 exit_code>>

\* line 137: child_stdin.lock().await; the guard lives to the end of main
MainLock ==
  /\ proc = "running"
  /\ main_pc = "lock"
  /\ Lock("main")
  /\ main_pc' = "newline_before"
  /\ UNCHANGED <<cfg, handle_refs, stdin_data, stdin_end, main_off, relay_pc, line, line_off,
                 child, child_in, read_lines, sig_registered, sig_pending,
                 sig_count, sig_late, write_failed, child_status, wait_result,
                 stderr, proc, exit_code>>

\* mutant of MainWriteFail: the error is reported without exit(1), so main
\* comes back to the step
MainWriteFail_Ignore ==
  /\ write_failed' = "main"
  /\ stderr' = Append(stderr, "Error writing kill command to child")
  /\ UNCHANGED <<cfg, handle_refs, stdin_data, stdin_end, main_pc, main_off,
                 relay_pc, line, line_off, mutex, waiters, child, child_in,
                 read_lines, sig_registered, sig_pending, sig_count, sig_late,
                 child_status, wait_result, proc, exit_code>>

\* a write of main to the child's stdin fails: lines 142-143, 148-149, 154-155
MainWriteFail ==
  /\ write_failed' = "main"
  /\ Exit(<<"Error writing kill command to child">>, 1)
  /\ UNCHANGED <<cfg, handle_refs, stdin_data, stdin_end, main_pc, main_off, relay_pc, line,
                 line_off, mutex, waiters, child, child_in, read_lines,
                 sig_registered, sig_pending, sig_count, sig_late,
                 child_status, wait_result>>

\* mutant of MainNewlineBefore: the flag is read without its negation
MainNewlineBefore_Inverted ==
  /\ proc = "running"
  /\ main_pc = "newline_before"
  /\ mutex = "main"
  /\ main_pc' = "kill_command"
  /\ child_in' = IF cfg.newline_before_kill THEN child_in
                 ELSE Append(child_in, Tagged(LF, "main"))
  /\ UNCHANGED <<cfg, handle_refs, stdin_data, stdin_end, main_off, relay_pc, line, line_off,
                 mutex, waiters, child, read_lines, sig_registered,
                 sig_pending, sig_count, sig_late, write_failed, child_status,
                 wait_result, stderr, proc, exit_code>>

\* lines 140-145: if newline_before_kill { write_all("\n") }
MainNewlineBefore ==
  /\ proc = "running"
  /\ main_pc = "newline_before"
  /\ mutex = "main"
  /\ \/ /\ cfg.newline_before_kill
        /\ child_in' = Append(child_in, Tagged(LF, "main"))
        /\ main_pc' = "kill_command"
        /\ UNCHANGED <<cfg, handle_refs, stdin_data, stdin_end, main_off, relay_pc, line,
                       line_off, mutex, waiters, child, read_lines,
                       sig_registered, sig_pending, sig_count, sig_late,
                       write_failed, child_status, wait_result, stderr, proc,
                       exit_code>>
     \/ /\ cfg.newline_before_kill
        /\ MainWriteFail
     \/ /\ ~cfg.newline_before_kill
        /\ main_pc' = "kill_command"
        /\ UNCHANGED <<cfg, handle_refs, stdin_data, stdin_end, main_off, relay_pc, line,
                       line_off, mutex, waiters, child, child_in, read_lines,
                       sig_registered, sig_pending, sig_count, sig_late,
                       write_failed, child_status, wait_result, stderr, proc,
                       exit_code>>

\* mutant of MainKillCommand: write() in place of write_all(): one write,
\* whatever part of the command it took, and on to the next step
MainKillCommand_Truncated ==
  /\ proc = "running"
  /\ main_pc = "kill_command"
  /\ mutex = "main"
  /\ child_in' = IF cfg.kill_command = None THEN child_in
                 ELSE Append(child_in, Tagged(cfg.kill_command[1], "main"))
  /\ main_off' = IF cfg.kill_command = None THEN main_off ELSE 1
  /\ main_pc' = "newline_after"
  /\ UNCHANGED <<cfg, handle_refs, stdin_data, stdin_end, relay_pc, line,
                 line_off, mutex, waiters, child, read_lines, sig_registered,
                 sig_pending, sig_count, sig_late, write_failed, child_status,
                 wait_result, stderr, proc, exit_code>>

\* lines 146-151: if let Some(kill_command) { write_all(kill_command) },
\* one byte of the command per step
MainKillCommand ==
  /\ proc = "running"
  /\ main_pc = "kill_command"
  /\ mutex = "main"
  /\ \/ /\ cfg.kill_command # None
        /\ main_off < Len(cfg.kill_command)
        /\ child_in' = Append(child_in, Tagged(cfg.kill_command[main_off + 1], "main"))
        /\ main_off' = main_off + 1
        /\ UNCHANGED <<cfg, handle_refs, stdin_data, stdin_end, main_pc, relay_pc, line,
                       line_off, mutex, waiters, child, read_lines,
                       sig_registered, sig_pending, sig_count, sig_late,
                       write_failed, child_status, wait_result, stderr, proc,
                       exit_code>>
     \/ /\ cfg.kill_command # None
        /\ main_off < Len(cfg.kill_command)
        /\ MainWriteFail
     \/ /\ \/ cfg.kill_command = None
           \/ main_off = Len(cfg.kill_command)
        /\ main_pc' = "newline_after"
        /\ UNCHANGED <<cfg, handle_refs, stdin_data, stdin_end, main_off, relay_pc, line,
                       line_off, mutex, waiters, child, child_in, read_lines,
                       sig_registered, sig_pending, sig_count, sig_late,
                       write_failed, child_status, wait_result, stderr, proc,
                       exit_code>>

\* mutant of MainNewlineAfter: the guard is dropped once the sequence is
\* written
MainNewlineAfter_DropGuard ==
  /\ proc = "running"
  /\ main_pc = "newline_after"
  /\ mutex = "main"
  /\ child_in' = IF cfg.newline_after_kill
                 THEN Append(child_in, Tagged(LF, "main")) ELSE child_in
  /\ Unlock
  /\ main_pc' = "wait_child"
  /\ stderr' = stderr \o DebugMsg("Waiting for child process to exit...")
  /\ UNCHANGED <<cfg, handle_refs, stdin_data, stdin_end, main_off, relay_pc, line, line_off,
                 child, read_lines, sig_registered, sig_pending, sig_count,
                 sig_late, write_failed, child_status, wait_result, proc,
                 exit_code>>

\* lines 152-161: if newline_after_kill { write_all("\n") }, then the
\* debug message before the wait
MainNewlineAfter ==
  /\ proc = "running"
  /\ main_pc = "newline_after"
  /\ mutex = "main"
  /\ \/ /\ cfg.newline_after_kill
        /\ child_in' = Append(child_in, Tagged(LF, "main"))
        /\ main_pc' = "wait_child"
        /\ stderr' = stderr \o DebugMsg("Waiting for child process to exit...")
        /\ UNCHANGED <<cfg, handle_refs, stdin_data, stdin_end, main_off, relay_pc, line,
                       line_off, mutex, waiters, child, read_lines,
                       sig_registered, sig_pending, sig_count, sig_late,
                       write_failed, child_status, wait_result, proc,
                       exit_code>>
     \/ /\ cfg.newline_after_kill
        /\ MainWriteFail
     \/ /\ ~cfg.newline_after_kill
        /\ main_pc' = "wait_child"
        /\ stderr' = stderr \o DebugMsg("Waiting for child process to exit...")
        /\ UNCHANGED <<cfg, handle_refs, stdin_data, stdin_end, main_off, relay_pc, line,
                       line_off, mutex, waiters, child, child_in, read_lines,
                       sig_registered, sig_pending, sig_count, sig_late,
                       write_failed, child_status, wait_result, proc,
                       exit_code>>

\* lines 164-170: child.await resolves with the child's status, or with an
\* error; either is only printed, and only with --debug
MainWait ==
  /\ proc = "running"
  /\ main_pc = "wait_child"
  /\ \/ /\ child = "exited"
        /\ wait_result' = "ok"
        /\ stderr' = stderr \o DebugMsg("Child process ended with status")
     \/ /\ wait_result' = "err"
        /\ stderr' = stderr \o DebugMsg("An error occurred while the child was exiting")
  /\ main_pc' = "exit"
  /\ UNCHANGED <<cfg, handle_refs, stdin_data, stdin_end, main_off, relay_pc, line, line_off,
                 mutex, waiters, child, child_in, read_lines, sig_registered,
                 sig_pending, sig_count, sig_late, write_failed, child_status,
                 proc, exit_code>>

\* line 174: exit(0)
MainExit ==
  /\ proc = "running"
  /\ main_pc = "exit"
  /\ Exit(<<>>, 0)
  /\ UNCHANGED <<cfg, handle_refs, stdin_data, stdin_end, main_pc, main_off, relay_pc, line,
                 line_off, mutex, waiters, child, child_in, read_lines,
                 sig_registered, sig_pending, sig_count, sig_late,
                 write_failed, child_status, wait_result>>

----------------------------------------------------------------------------
(* Environment *)

\* mutant of SigTerm: the handler is gone once recv() has returned, so a
\* later SIGTERM takes the default action
SigTerm_OneShot ==
  /\ proc = "running"
  /\ sig_count < MaxSignals
  /\ sig_count' = sig_count + 1
  /\ IF sig_registered /\ main_pc = "recv"
     THEN /\ sig_pending' = TRUE
          /\ UNCHANGED <<proc, sig_late>>
     ELSE /\ proc' = "killed"
          /\ UNCHANGED <<sig_pending, sig_late>>
  /\ UNCHANGED <<cfg, handle_refs, stdin_data, stdin_end, main_pc, main_off, relay_pc, line,
                 line_off, mutex, waiters, child, child_in, read_lines,
                 sig_registered, write_failed, child_status, wait_result,
                 stderr, exit_code>>

\* SIGTERM is delivered to the wrapper.  Before signal() installed tokio's
\* handler the default action ends the process.  Afterwards the handler,
\* which stays installed for the life of the process, queues a notification
\* for the Signal stream if main still has one.
SigTerm ==
  /\ proc = "running"
  /\ sig_count < MaxSignals
  /\ sig_count' = sig_count + 1
  /\ IF sig_registered
     THEN /\ sig_pending' = (sig_pending \/ main_pc = "recv")
          /\ sig_late' = (sig_late \/ main_pc \in {"lock", "newline_before",
                                       "kill_command", "newline_after",
                                       "wait_child"})
          /\ UNCHANGED <<proc>>
     ELSE /\ proc' = "killed"
          /\ UNCHANGED <<sig_pending, sig_late>>
  /\ UNCHANGED <<cfg, handle_refs, stdin_data, stdin_end, main_pc, main_off, relay_pc, line,
                 line_off, mutex, waiters, child, child_in, read_lines,
                 sig_registered, write_failed, child_status, wait_result,
                 stderr, exit_code>>

\* the child process ends with some status
ChildExit ==
  /\ proc = "running"
  /\ child = "running"
  /\ child' = "exited"
  /\ child_status' \in ChildCodes
  /\ UNCHANGED <<cfg, handle_refs, stdin_data, stdin_end, main_pc, main_off, relay_pc, line,
                 line_off, mutex, waiters, child_in, read_lines,
                 sig_registered, sig_pending, sig_count, sig_late,
                 write_failed, wait_result, stderr, proc, exit_code>>

----------------------------------------------------------------------------
Next ==
  \/ MainSpawnOk
  \/ MainSpawnFail
  \/ MainSpawnTask
  \/ MainSignal
  \/ MainRecv
  \/ MainLock
  \/ MainNewlineBefore
  \/ MainKillCommand
  \/ MainNewlineAfter
  \/ MainWait
  \/ MainExit
  \/ RelayReadLine
  \/ RelayReadEnd
  \/ RelayLock
  \/ RelayWrite
  \/ RelayWriteFail
  \/ RelayUnlock
  \/ SigTerm
  \/ ChildExit

Spec == Init /\ [][Next]_vars

\* the supervisor's state of the design: Starting, Running, ShuttingDown,
\* Waiting, Done
SupState ==
  CASE main_pc = "spawn" -> "Starting"
    [] main_pc \in {"spawn_task", "signal", "recv"} -> "Running"
    [] main_pc \in {"lock", "newline_before", "kill_command", "newline_after"}
         -> "ShuttingDown"
    [] main_pc = "wait_child" -> "Waiting"
    [] main_pc = "exit" -> "Done"

----------------------------------------------------------------------------
(* Derived views used by the properties *)

IsPrefix(p, q) == Len(p) <= Len(q) /\ p = SubSeq(q, 1, Len(p))

RECURSIVE Flatten(_)
Flatten(ls) ==
  IF ls = <<>> THEN <<>> ELSE Head(ls) \o <<LF>> \o Flatten(Tail(ls))

\* the bytes main has to write after SIGTERM, from the parsed options
ShutdownSeq(c) ==
  (IF c.newline_before_kill THEN <<LF>> ELSE <<>>)
    \o (IF c.kill_command # None THEN c.kill_command ELSE <<>>)
    \o (IF c.newline_after_kill THEN <<LF>> ELSE <<>>)

MainBytes == KeepBy(child_in, "main")
RelayBytes == KeepBy(child_in, "relay")

Printed(m) == \E i \in 1..Len(stderr) : stderr[i] = m

RelayMidLine == relay_pc = "locked" /\ 0 < line_off /\ line_off < Len(line)

----------------------------------------------------------------------------
(* C1: the shutdown bytes never appear inside a relayed line.  A byte      *)
(* written by main is the first byte of the stream or follows another byte *)
(* of main or the terminator of a relayed line; while a line is partly     *)
(* written the relay owns the lock and main has written nothing; once main *)
(* has written, main owns the lock.                                        *)
C1_NoTornLine ==
  /\ \A i \in 2..Len(child_in) :
       child_in[i].by = "main" =>
         child_in[i-1].by = "main" \/ child_in[i-1].b = LF
  /\ RelayMidLine => mutex = "relay" /\ MainBytes = <<>>
  /\ MainBytes # <<>> => mutex = "main"

\* SIGTERM fired while a two-byte line was half written; main queued for
\* the lock and wrote its first byte only after the whole line
C1_Witness ==
  /\ Len(child_in) >= 3
  /\ child_in[1] = Tagged("a", "relay")
  /\ child_in[2] = Tagged(LF, "relay")
  /\ child_in[3].by = "main"
  /\ relay_pc = "locked"
  /\ waiters = <<"relay">>

(* C2: once main owns the child_stdin lock it owns it in every later       *)
(* state, and from then on the relay writes nothing: the relay's bytes in  *)
(* the stream stay as they are.                                            *)
C2_LockNeverReleased ==
  [][mutex = "main" => mutex' = "main" /\ RelayBytes' = RelayBytes]_vars

\* main waits for the child holding the lock while the relay is parked on
\* the lock with a line in hand and more input behind it
C2_Witness ==
  /\ main_pc = "wait_child"
  /\ mutex = "main"
  /\ relay_pc = "locked"
  /\ waiters = <<"relay">>
  /\ stdin_data # <<>>
  /\ MainBytes = ShutdownSeq(cfg)

(* C3: what main writes is the configured sequence and nothing else: at    *)
(* every moment a prefix of "\n" iff newline_before, the command iff set,  *)
(* "\n" iff newline_after; the whole of it once main waits for the child;  *)
(* with no command, exactly two newlines.                                  *)
C3_ShutdownBytes ==
  /\ IsPrefix(MainBytes, ShutdownSeq(cfg))
  /\ main_pc \in {"wait_child", "exit"} => MainBytes = ShutdownSeq(cfg)
  /\ main_pc \in {"wait_child", "exit"} /\ cfg.kill_command = None
       => MainBytes = <<LF, LF>>
  /\ main_pc \in {"spawn", "spawn_task", "signal", "recv", "lock"}
       => MainBytes = <<>>

\* a command without the leading newline, written after a relayed line
C3_Witness ==
  /\ main_pc = "wait_child"
  /\ cfg.kill_command = <<"e", "x">>
  /\ ~cfg.newline_before_kill
  /\ cfg.newline_after_kill
  /\ Bytes(child_in) = <<"a", LF, "e", "x", LF>>

(* C4: a SIGTERM delivered while main is shutting down or waiting for the  *)
(* child changes nothing but the count of deliveries: no byte is written,  *)
(* the process keeps running, main stays where it is, no exit code is set. *)
C4_LateSignalIgnored ==
  [][(sig_count' # sig_count /\ SupState \in {"ShuttingDown", "Waiting"})
       => UNCHANGED <<cfg, handle_refs, stdin_data, stdin_end, main_pc, main_off, relay_pc,
                      line, line_off, mutex, waiters, child, child_in,
                      read_lines, sig_registered, sig_pending, write_failed,
                      child_status, wait_result, stderr, proc, exit_code>>]_vars

\* a second SIGTERM arrived during shutdown; the sequence was written once
\* and the process ended through exit(0)
C4_Witness ==
  /\ sig_late
  /\ sig_count = 2
  /\ proc = "exited"
  /\ main_pc = "exit"
  /\ exit_code = 0
  /\ MainBytes = ShutdownSeq(cfg)

(* C5: with no SIGTERM and no failed write, the child's stdin holds every  *)
(* line the relay has read, each once, each followed by one "\n", in the   *)
(* order read; the line in hand is there up to the bytes written so far.   *)
C5_LinesRelayedInOrder ==
  (sig_count = 0 /\ write_failed = "none") =>
    Bytes(child_in) =
      IF relay_pc \in {"lock", "locked"}
      THEN Flatten(SubSeq(read_lines, 1, Len(read_lines) - 1))
             \o SubSeq(read_lines[Len(read_lines)] \o <<LF>>, 1, line_off)
      ELSE Flatten(read_lines)

\* two lines, the first ended by "\r\n", relayed before end-of-stream
C5_Witness ==
  /\ sig_count = 0
  /\ write_failed = "none"
  /\ relay_pc = "returned"
  /\ read_lines = <<<<>>, <<"a">>>>
  /\ Bytes(child_in) = <<LF, "a", LF>>

(* C6: after a successful wait the wrapper's exit code is the child's.     *)
C6_ExitCodeIsChildCode ==
  (proc = "exited" /\ main_pc = "exit" /\ wait_result = "ok")
    => exit_code = child_status

(* C7: a failed wait on the child is reported on stderr and the wrapper    *)
(* exits with code 1.                                                      *)
C7_WaitFailureExits1 ==
  (proc = "exited" /\ main_pc = "exit" /\ wait_result = "err")
    => /\ exit_code = 1
       /\ Printed("An error occurred while the child was exiting")

(* C8: a failed spawn is reported and ends the process with code 1 from    *)
(* Starting: no relay task, no signal handler, no byte to any child, no    *)
(* wait.                                                                   *)
C8_SpawnFailure ==
  Printed("Error creating process") =>
    /\ proc = "exited"
    /\ exit_code = 1
    /\ stderr[Len(stderr)] = "Error creating process"
    /\ SupState = "Starting"
    /\ relay_pc = "unstarted"
    /\ ~sig_registered
    /\ child = "none"
    /\ child_in = <<>>
    /\ wait_result = "none"

C8_Witness ==
  /\ Printed("Error creating process")
  /\ proc = "exited"
  /\ cfg.debug

(* C9: the relay's return on a read error or end-of-stream leaves main,    *)
(* the process and the child's stdin as they are, and a SIGTERM delivered  *)
(* while the supervisor is Running after the relay returned is kept for    *)
(* main: the process lives and, if main is in recv(), is woken.            *)
C9_RelayEndHarmless ==
  [][/\ (relay_pc # "returned" /\ relay_pc' = "returned")
          => UNCHANGED <<main_pc, proc, exit_code, child_in, mutex>>
     /\ (relay_pc = "returned" /\ SupState = "Running" /\ sig_count' # sig_count)
          => (proc' = "running" /\ (main_pc = "recv" => sig_pending'))]_vars

(* C10: a failed relay write ends the process at once with code 1 and a    *)
(* diagnostic, with main waiting for the signal or for the lock; main has  *)
(* written nothing and waits for no child.                                 *)
C10_RelayWriteFailure ==
  write_failed = "relay" =>
    /\ proc = "exited"
    /\ exit_code = 1
    /\ stderr # <<>>
    /\ stderr[Len(stderr)] = "Unable to write to child process"
    /\ main_pc \in {"signal", "recv", "lock", "newline_before"}
    /\ MainBytes = <<>>
    /\ wait_result = "none"

\* the write failed in the middle of a line while main was parked on the lock
C10_Witness ==
  /\ write_failed = "relay"
  /\ main_pc = "newline_before"
  /\ waiters = <<"main">>
  /\ line_off = 1

\* the bytes main wrote before the step it is at
WrittenBefore(pc) ==
  (IF cfg.newline_before_kill /\ pc # "newline_before" THEN <<LF>> ELSE <<>>)
    \o (IF cfg.kill_command = None \/ pc = "newline_before" THEN <<>>
        ELSE IF pc = "kill_command" THEN SubSeq(cfg.kill_command, 1, main_off)
        ELSE cfg.kill_command)

(* C11: a failed write of the shutdown sequence ends the process with code *)
(* 1 at the step that failed: main is still at that step and never waits   *)
(* for the child, the step is enabled and incomplete, and the child's      *)
(* stdin holds the bytes of the earlier steps, no more and no less.        *)
C11_ShutdownWriteFailure ==
  write_failed = "main" =>
    /\ proc = "exited"
    /\ exit_code = 1
    /\ stderr[Len(stderr)] = "Error writing kill command to child"
    /\ SupState = "ShuttingDown"
    /\ wait_result = "none"
    /\ main_pc = "newline_before" => cfg.newline_before_kill
    /\ main_pc = "kill_command" =>
         cfg.kill_command # None /\ main_off < Len(cfg.kill_command)
    /\ main_pc = "newline_after" => cfg.newline_after_kill
    /\ MainBytes = WrittenBefore(main_pc)
    /\ MainBytes # ShutdownSeq(cfg)

\* the command's write failed after the leading newline and one byte of it
C11_Witness ==
  /\ write_failed = "main"
  /\ main_pc = "kill_command"
  /\ MainBytes = <<LF, "e">>
  /\ proc = "exited"

\* the relay has a line in hand: read, not yet released after its write
LineInHand == relay_pc \in {"lock", "locked"}

\* the lines read before the one in hand
LinesDone ==
  IF LineInHand THEN SubSeq(read_lines, 1, Len(read_lines) - 1) ELSE read_lines

\* the bytes of the line in hand written so far
LinePart == IF LineInHand THEN SubSeq(line, 1, line_off) ELSE <<>>

(* C12, as claimed: in every reachable state the child's stdin is the      *)
(* first k lines read, each followed by "\n", then a prefix of the         *)
(* shutdown sequence, non-empty only after SIGTERM, whole in Waiting.      *)
C12_WholeLinesThenShutdown ==
  /\ \E k \in 0..Len(read_lines) :
       Bytes(child_in) = Flatten(SubSeq(read_lines, 1, k)) \o MainBytes
  /\ IsPrefix(MainBytes, ShutdownSeq(cfg))
  /\ MainBytes # <<>> => sig_count > 0
  /\ SupState = "Waiting" => MainBytes = ShutdownSeq(cfg)

(* C12, amended: the child's stdin is the first k lines read, each         *)
(* followed by "\n", then the written part of the line the relay has in    *)
(* hand, then a prefix of the shutdown sequence; the shutdown part is      *)
(* non-empty only after SIGTERM and only when the line part is empty or    *)
(* the whole line, and it is the whole sequence in Waiting.                *)
C12_LinesPartThenShutdown ==
  /\ Bytes(child_in) = Flatten(LinesDone) \o LinePart \o MainBytes
  /\ IsPrefix(MainBytes, ShutdownSeq(cfg))
  /\ MainBytes # <<>> => sig_count > 0 /\ LinePart \in {<<>>, line}
  /\ SupState = "Waiting" => MainBytes = ShutdownSeq(cfg)

\* SIGTERM while "a\n" was half written: the line, then the whole sequence
C12_Witness ==
  /\ SupState = "Waiting"
  /\ read_lines = <<<<"a">>, <<>>>>
  /\ relay_pc = "locked"
  /\ cfg.kill_command = <<"e", "x">>
  /\ Bytes(child_in) = <<"a", LF, LF, "e", "x", LF>>

\* the messages of the fatal errors: lines 117, 34, 142/148/154
FatalMsgs ==
  {"Error creating process", "Unable to write to child process",
   "Error writing kill command to child"}

(* C13: without --debug only fatal errors are printed to stderr; the       *)
(* relay's return on a read error or end-of-stream prints nothing.         *)
C13_QuietWithoutDebug ==
  ~cfg.debug => \A i \in 1..Len(stderr) : stderr[i] \in FatalMsgs

\* the order of the supervisor's states
Rank(st) ==
  CASE st = "Starting" -> 0
    [] st = "Running" -> 1
    [] st = "ShuttingDown" -> 2
    [] st = "Waiting" -> 3
    [] st = "Done" -> 4

(* C14: every step keeps the supervisor's state or moves it to the next of *)
(* Starting, Running, ShuttingDown, Waiting, Done; an exit() from a state  *)
(* other than Done has code 1; ShuttingDown is entered from Running with a *)
(* SIGTERM delivered and queued; the relay runs only once the child and    *)
(* its handle exist; Waiting is entered with the whole sequence written.   *)
C14_StateOrder ==
  [][/\ Rank(SupState') \in {Rank(SupState), Rank(SupState) + 1}
     /\ (proc = "running" /\ proc' = "exited")
          => IF SupState = "Done" THEN exit_code' = 0 ELSE exit_code' = 1
     /\ (SupState # "ShuttingDown" /\ SupState' = "ShuttingDown")
          => sig_count > 0 /\ sig_pending /\ sig_registered
     /\ (relay_pc = "unstarted" /\ relay_pc' # "unstarted")
          => child # "none" /\ handle_refs = 1 /\ SupState = "Running"
     /\ (SupState # "Waiting" /\ SupState' = "Waiting")
          => MainBytes' = ShutdownSeq(cfg)]_vars

\* a run through all five states to exit(0), with a line relayed on the way
C14_Witness ==
  /\ SupState = "Done"
  /\ proc = "exited"
  /\ exit_code = 0
  /\ wait_result = "ok"
  /\ sig_count = 1
  /\ Bytes(child_in) = <<"a", LF>> \o ShutdownSeq(cfg)

----------------------------------------------------------------------------
(* Fair scheduling: the runtime runs a task that can take a step, a write  *)
(* to the child's pipe in progress ends (in a write or in an error), and a *)
(* wait on a child that has exited returns.  Nothing is assumed of SIGTERM *)
(* deliveries, of the child's exit, of the wrapper's stdin or of errors.   *)
\* The runs checked for progress are those without --debug whose stdin does
\* not end in a read error: the others differ from them by the messages
\* printed only.
FairInit == Init /\ ~cfg.debug /\ stdin_end # "err"

FairSpec ==
  /\ FairInit
  /\ [][Next]_vars
  /\ WF_vars(MainRecv)
  /\ WF_vars(MainLock)
  /\ WF_vars(MainNewlineBefore)
  /\ WF_vars(MainKillCommand)
  /\ WF_vars(MainNewlineAfter)
  /\ WF_vars(MainWait /\ wait_result' = "ok")
  /\ WF_vars(MainExit)
  /\ WF_vars(RelayWrite \/ RelayWriteFail)
  /\ WF_vars(RelayUnlock)

(* C15: under fair scheduling a SIGTERM queued for main in recv() leads to *)
(* main owning the lock with the whole sequence written and waiting for    *)
(* the child, unless a failed write ended the process first; and main      *)
(* waiting for a child that has exited leads to the process's exit.        *)
C15_ShutdownCompletes ==
  /\ (main_pc = "recv" /\ sig_pending /\ proc = "running")
       ~> \/ proc = "exited" /\ exit_code = 1 /\ write_failed # "none"
          \/ /\ main_pc = "wait_child"
             /\ mutex = "main"
             /\ MainBytes = ShutdownSeq(cfg)
  /\ (main_pc = "wait_child" /\ child = "exited" /\ proc = "running")
       ~> (proc = "exited" /\ main_pc = "exit" /\ exit_code = 0)

\* the process has exited through Done, having queued for the lock behind
\* a relay write, with the relay parked on the lock for its next line
C15_Witness ==
  /\ proc = "exited"
  /\ main_pc = "exit"
  /\ Len(read_lines) = 2
  /\ Len(RelayBytes) = Len(read_lines[1]) + 1
  /\ relay_pc = "locked"
  /\ waiters = <<"relay">>

(* C16: no SIGTERM delivered once the child is spawned is lost: it never   *)
(* ends the wrapper by its default action, and one delivered while the     *)
(* supervisor is Running is queued for main.                               *)
C16_NoDeliveryLost ==
  [][(child # "none" /\ sig_count' # sig_count)
       => /\ proc' = "running"
          /\ SupState = "Running" => sig_pending']_vars

(* C17: with no SIGTERM delivered and no failed relay write, a child that  *)
(* has exited leaves the supervisor Running: the process runs on, main has *)
(* not waited for the child and has written nothing.                       *)
C17_ChildExitUnobserved ==
  (child = "exited" /\ sig_count = 0 /\ write_failed = "none") =>
    /\ proc = "running"
    /\ SupState = "Running"
    /\ wait_result = "none"
    /\ MainBytes = <<>>

\* the child is gone, the relay has returned, main sits in recv()
C17_Witness ==
  /\ child = "exited"
  /\ sig_count = 0
  /\ write_failed = "none"
  /\ main_pc = "recv"
  /\ relay_pc = "returned"

\* the child's stdin handle is open: someone owns the Arc around it
HandleOpen == handle_refs > 0

(* C18: from the spawn of the child to the end of the process the child's  *)
(* stdin handle is open, also after the relay has returned.                *)
C18_HandleStaysOpen ==
  (child # "none" /\ proc = "running") =>
    /\ HandleOpen
    /\ relay_pc = "returned" => handle_refs = 1

\* the relay returned at end-of-stream and main went on to the wait
C18_Witness ==
  /\ relay_pc = "returned"
  /\ stdin_end = "eof"
  /\ main_pc = "wait_child"
  /\ proc = "running"
  /\ HandleOpen

RECURSIVE CountLF(_)
CountLF(bs) ==
  IF bs = <<>> THEN 0
  ELSE (IF Head(bs) = LF THEN 1 ELSE 0) + CountLF(Tail(bs))

\* lines read whose terminator has not reached the child
Undelivered == Len(read_lines) - CountLF(RelayBytes)

(* C19: at most one line read has not been wholly written; a line is read  *)
(* only when none is; and while main owns the lock the relay reads a line  *)
(* only if it has none in hand, keeps it for good and delivers nothing, so *)
(* it reads at most one line from then on.                                 *)
C19_OneLineInHand ==
  [][/\ Undelivered' \in {0, 1}
     /\ read_lines' # read_lines => Undelivered = 0 /\ Undelivered' = 1
     /\ mutex = "main" =>
          /\ RelayBytes' = RelayBytes
          /\ Undelivered = 1 => read_lines' = read_lines]_vars

\* main owns the lock; the relay read one more line after that and is
\* parked with it, with input left that it will never read
C19_Witness ==
  /\ main_pc = "wait_child"
  /\ mutex = "main"
  /\ waiters = <<"relay">>
  /\ Len(read_lines) = 2
  /\ Undelivered = 1
  /\ stdin_data # <<>>

====
